---- MODULE Spec2Model ----
(***************************************************************************)
(* The Computation Orchestration Gateway of TrafficOptimization: the Go    *)
(* HTTP handlers `process` and `download`, their helpers and the in-memory *)
(* artifact store, in the four revisions the repository holds:            *)
(*   "single"  src/backend/main.go          one hybrid runner             *)
(*   "legacy"  src/unnamed/part_016:1-399   two runners, metrics.enhanced *)
(*   "mixed"   src/unnamed/part_016:401-780 two runners, stats or metrics *)
(*   "routed"  src/backend/first_generated_circuit.qasm:33-459            *)
(*                                          two runners, stats + routes   *)
(* and, of its frontend, calculations.ts (calculateAverageImprovement,     *)
(* validateFile) and the hook useOptimization.                             *)
(***************************************************************************)
EXTENDS Integers, Sequences, FiniteSets, TLC

VARIABLES
    rev,      \* the revision of the gateway that is running
    now,      \* the reading of time.Now().UnixNano()
    store,    \* var store sync.Map: handle -> csvRecord
    req,      \* one record per in-flight `process` request
    dl,       \* the response of the last `download` request
    agg,      \* harness of the perGraph loop: revision, decoded results, outcome
    spd,      \* harness of speedup: baseMs, testMs, outcome
    py,       \* harness of runPython: revision, the backend's run, outcome
    ui,       \* harness of the frontend's calculations.ts: input, outcome
    hook      \* the state of the frontend's useOptimization hook and its calls

vars == <<rev, now, store, req, dl, agg, spd, py, ui, hook>>

(***************************************************************************)
(* Bounds of the model.                                                    *)
(***************************************************************************)
MaxMs == 4          \* times range over -MaxMs..MaxMs milliseconds
MaxItems == 2       \* a backend reports at most MaxItems results
MaxClock == 3       \* the clock readings are 1..MaxClock
NumReqs == 2        \* concurrent `process` requests
MaxWrites == 3      \* a backend writes at most MaxWrites chunks to its channels
MaxRoutes == 3      \* a quantum item carries at most MaxRoutes routes
MaxDist == 3        \* total distances range over 0..MaxDist
MaxParts == 2       \* a file name has at most MaxParts parts between dots
MaxCalls == 2       \* processFile is called at most MaxCalls times

(***************************************************************************)
(* Optional values: a JSON key that is absent, or whose value does not     *)
(* have the asserted Go type, is None (the `ok` of a type assertion is     *)
(* false in both cases).                                                   *)
(***************************************************************************)
None == <<>>
Some(x) == <<x>>
IsSome(o) == o # <<>>
Get(o) == o[1]

RevSingle == "single"
RevLegacy == "legacy"
RevMixed == "mixed"
RevRouted == "routed"
TwoBackendRevs == {RevLegacy, RevMixed, RevRouted}
Revs == {RevSingle} \cup TwoBackendRevs

(***************************************************************************)
(* Helpers of the Go sources.                                              *)
(***************************************************************************)
\* func min(a, b int) int
min(a, b) == IF a < b THEN a ELSE b

\* A decoded JSON number is a float64; the handlers also build Go ints.
\* A float is kept as a whole number of millionths, an int as itself.
Micro == 1000 * 1000
Float(u) == [k |-> "float", v |-> u]
GoInt(n) == [k |-> "int", v |-> n]

\* int(f) of a float64 given in millionths: truncation towards zero.
TruncDiv(n, d) == IF n >= 0 THEN n \div d ELSE -((-n) \div d)

\* func intFromAny(a any) int: 0 for a missing value or one that is no number.
intFromAny(a) ==
    IF ~IsSome(a) THEN 0
    ELSE IF Get(a).k = "int" THEN Get(a).v
    ELSE TruncDiv(Get(a).v, Micro)

(***************************************************************************)
(* float64 arithmetic. A non-negative float64 is [m, e]: m the 53 bits of  *)
(* its significand, most significant first (the first is 1), or <<>> for   *)
(* zero, and e the exponent of its last bit: the value is m * 2^e. Sums    *)
(* and products are rounded to nearest, ties to even, as the hardware      *)
(* does. The times that the handlers add and multiply are not negative.    *)
(***************************************************************************)
MantBits == 52 + 1
Zeros(k) == [i \in 1..k |-> 0]
F64Zero == [m |-> <<>>, e |-> 0]

\* Bit strings (most significant bit first) and the same numbers in limbs of
\* LimbBits bits, on which the carries and remainders are computed.
LimbBits == 2 * 5
Base == 2 ^ LimbBits

Bits(n) == [i \in 1..(3 * LimbBits) |-> (n \div (2 ^ (3 * LimbBits - i))) % 2]

RECURSIVE BitsToNat(_)
BitsToNat(b) ==
    IF b = <<>> THEN 0 ELSE 2 * BitsToNat(SubSeq(b, 1, Len(b) - 1)) + b[Len(b)]

Strip(b) ==
    IF \A i \in DOMAIN b : b[i] = 0 THEN <<>>
    ELSE LET f == CHOOSE i \in DOMAIN b : b[i] = 1 /\ \A j \in 1..(i - 1) : b[j] = 0
         IN SubSeq(b, f, Len(b))

ToBits(l) ==
    [i \in 1..(LimbBits * Len(l)) |->
        (l[((i - 1) \div LimbBits) + 1] \div (2 ^ (LimbBits - 1 - ((i - 1) % LimbBits)))) % 2]

\* The limbs of the bit string b, widened to width bits.
FromBits(b, width) ==
    LET bb == Zeros(width - Len(b)) \o b
    IN [j \in 1..(width \div LimbBits) |->
           BitsToNat(SubSeq(bb, LimbBits * (j - 1) + 1, LimbBits * j))]

WidthFor(n) == LimbBits * ((n + LimbBits - 1) \div LimbBits)

\* a + b + carry of two limb strings of the same length.
RECURSIVE AddLimbs(_, _, _)
AddLimbs(a, b, carry) ==
    IF a = <<>> THEN <<carry>>
    ELSE LET n == Len(a)
             d == a[n] + b[n] + carry
         IN Append(AddLimbs(SubSeq(a, 1, n - 1), SubSeq(b, 1, n - 1), d \div Base), d % Base)

\* a * n + carry, for a natural n below Base.
RECURSIVE MulLimbs(_, _, _)
MulLimbs(a, n, carry) ==
    IF a = <<>> THEN <<carry>>
    ELSE LET k == Len(a)
             d == a[k] * n + carry
         IN Append(MulLimbs(SubSeq(a, 1, k - 1), n, d \div Base), d % Base)

\* The quotient and the remainder of a / d, for a natural d up to 10^6.
RECURSIVE DivLimbs(_, _)
DivLimbs(a, d) ==
    IF a = <<>> THEN [q |-> <<>>, r |-> 0]
    ELSE LET k == Len(a)
             h == DivLimbs(SubSeq(a, 1, k - 1), d)
             x == h.r * Base + a[k]
         IN [q |-> Append(h.q, x \div d), r |-> x % d]

AddBits(a, b) ==
    LET w == WidthFor(IF Len(a) > Len(b) THEN Len(a) ELSE Len(b))
    IN ToBits(AddLimbs(FromBits(a, w), FromBits(b, w), 0))

MulBits(b, n) == ToBits(MulLimbs(FromBits(b, WidthFor(Len(b))), n, 0))

DivBits(b, d) ==
    LET h == DivLimbs(FromBits(b, WidthFor(Len(b))), d)
    IN [q |-> ToBits(h.q), r |-> h.r]

\* The float64 nearest to (b + f) * 2^e, where f < 1 is a fraction that is
\* not zero iff sticky (b then has more than MantBits bits).
Round53(bits, sticky, e) ==
    LET b == Strip(bits)
        n == Len(b)
    IN IF b = <<>> THEN F64Zero
       ELSE IF n <= MantBits THEN [m |-> b \o Zeros(MantBits - n), e |-> e - (MantBits - n)]
       ELSE LET keep == SubSeq(b, 1, MantBits)
                rest == sticky \/ \E i \in (MantBits + 2)..n : b[i] = 1
                up == b[MantBits + 1] = 1 /\ (rest \/ keep[MantBits] = 1)
                r == IF up THEN Strip(AddBits(keep, <<1>>)) ELSE keep
            IN [m |-> SubSeq(r, 1, MantBits), e |-> e + (n - MantBits) + (Len(r) - MantBits)]

\* x + y and x * n (n a small natural, which is a float64 exactly).
F64Add(x, y) ==
    IF x.m = <<>> THEN y
    ELSE IF y.m = <<>> THEN x
    ELSE LET lo == min(x.e, y.e)
         IN Round53(AddBits(x.m \o Zeros(x.e - lo), y.m \o Zeros(y.e - lo)), FALSE, lo)
F64Mul(x, n) == Round53(MulBits(x.m, n), FALSE, x.e)

\* int(x): the whole part.
F64Trunc(x) ==
    IF x.m = <<>> \/ MantBits + x.e <= 0 THEN 0
    ELSE IF x.e >= 0 THEN BitsToNat(x.m \o Zeros(x.e))
    ELSE BitsToNat(SubSeq(x.m, 1, MantBits + x.e))

\* The float64 that encoding/json decodes from a decimal of u millionths:
\* the nearest to u / 10^6.
F64FromDecimal(u) ==
    LET d == DivBits(Bits(u) \o Zeros(3 * 25), Micro)
    IN Round53(d.q, d.r # 0, -(3 * 25))

\* func floatFromAny(a any) float64
floatFromAny(a) ==
    IF ~IsSome(a) THEN F64Zero
    ELSE IF Get(a).k = "int" THEN Round53(Bits(Get(a).v), FALSE, 0)
    ELSE F64FromDecimal(Get(a).v)

\* func floatToInt(f float64) int
floatToInt(f) == F64Trunc(f)

\* A float64 quotient num/den of two ints. den = 0 stands for the IEEE
\* results of a division by zero (+Inf, -Inf, NaN).
Ratio(n, d) == [num |-> n, den |-> d]
IsFinite(x) == x.den # 0
IsNonNeg(x) == x.den # 0 /\ x.num * x.den >= 0
IsZero(x) == x.den # 0 /\ x.num = 0

\* speedup with the guard testMs < 0 in place of testMs <= 0.
speedup_offByOne(baseMs, testMs) ==
    IF testMs < 0 THEN Ratio(0, 1) ELSE Ratio(baseMs, testMs)

\* func speedup(baseMs, testMs int) float64
speedup(baseMs, testMs) ==
    IF testMs <= 0 THEN Ratio(0, 1) ELSE Ratio(baseMs, testMs)

(***************************************************************************)
(* Decoded backend results (resp.Results). An item is a JSON value:       *)
(*   isMap        it is a JSON object                                      *)
(*   graph_index  the identity index it reports                            *)
(*   metrics      Opt([enhanced: Opt([opt_time_ms: Opt(number)])])         *)
(*   stats        Opt([pure_quantum_time: Opt(number)])                    *)
(*   routes       Opt(Seq([quantum: Opt([time: Opt(number)])]))            *)
(***************************************************************************)
Enhanced(ms) == [opt_time_ms |-> ms]
Metrics(enh) == [enhanced |-> enh]
Item(m, gi, met, st, ro) ==
    [isMap |-> m, graph_index |-> gi, metrics |-> met, stats |-> st, routes |-> ro]

\* Entry with the operands of the difference exchanged.
Entry_swappedDelta(i, gi, cm, qm, ceMs, qeMs) ==
    [pos |-> i, graph_index |-> gi, classical |-> cm, quantum |-> qm,
     compare |-> [delta_ms |-> ceMs - qeMs, quantum_speedup |-> speedup(ceMs, qeMs)]]

\* One record of perGraph. pos is the loop position i that emitted it.
Entry(i, gi, cm, qm, ceMs, qeMs) ==
    [pos |-> i, graph_index |-> gi, classical |-> cm, quantum |-> qm,
     compare |-> [delta_ms |-> qeMs - ceMs, quantum_speedup |-> speedup(ceMs, qeMs)]]

Skip == [kind |-> "skip", entry |-> None]
Panic == [kind |-> "panic", entry |-> None]
Emit(e) == [kind |-> "emit", entry |-> Some(e)]

\* The body of the perGraph loop of revision "legacy" at position i.
LoopLegacy(i, c, q) ==
    IF ~IsSome(c.metrics) \/ ~IsSome(q.metrics) THEN Skip
    ELSE LET cm == Get(c.metrics)
             qm == Get(q.metrics)
         IN IF ~IsSome(cm.enhanced) \/ ~IsSome(qm.enhanced) THEN Skip
            ELSE LET ceMs == intFromAny(Get(cm.enhanced).opt_time_ms)
                     qeMs == intFromAny(Get(qm.enhanced).opt_time_ms)
                 IN Emit(Entry(i, c.graph_index, cm, qm, ceMs, qeMs))

\* qTimeTotal of revision "routed": the sum of route.quantum.time over the
\* routes that are objects with an object under "quantum".
RECURSIVE SumRouteTimes(_)
SumRouteTimes(routes) ==
    IF routes = <<>> THEN F64Zero
    ELSE LET rm == routes[Len(routes)]
             t == IF rm.isMap /\ IsSome(rm.quantum)
                  THEN floatFromAny(Get(rm.quantum).time) ELSE F64Zero
         IN F64Add(SumRouteTimes(SubSeq(routes, 1, Len(routes) - 1)), t)

\* The body of the perGraph loop of revision "routed" at position i.
LoopRouted(i, c, q) ==
    IF ~IsSome(c.metrics) THEN Skip
    ELSE LET cm == Get(c.metrics)
         IN IF ~IsSome(cm.enhanced) THEN Skip
            ELSE IF ~IsSome(q.stats) THEN Skip
            ELSE LET ceMs == intFromAny(Get(cm.enhanced).opt_time_ms)
                     qRoutes == IF IsSome(q.routes) THEN Get(q.routes) ELSE <<>>
                     qTimeTotal == SumRouteTimes(qRoutes)
                     qeMs == F64Trunc(F64Mul(qTimeTotal, 1000))
                     qm == Metrics(Some(Enhanced(Some(GoInt(qeMs)))))
                 IN Emit(Entry(i, q.graph_index, cm, qm, ceMs, qeMs))

\* The body of the perGraph loop of revision "mixed" at position i: every
\* type assertion is unchecked, so a value of another type panics.
LoopMixed(i, c, q) ==
    IF ~c.isMap \/ ~q.isMap THEN Panic
    ELSE IF ~IsSome(c.metrics) THEN Panic
    ELSE LET cm == Get(c.metrics)
             hasStats == IsSome(q.stats)
         IN IF hasStats /\ ~IsSome(Get(q.stats).pure_quantum_time) THEN Panic
            ELSE IF hasStats /\ Get(Get(q.stats).pure_quantum_time).k # "float" THEN Panic
            ELSE IF ~hasStats /\ ~IsSome(q.metrics) THEN Panic
            ELSE LET qm == IF hasStats
                           THEN Metrics(Some(Enhanced(Some(GoInt(
                                    floatToInt(F64Mul(F64FromDecimal(
                                        Get(Get(q.stats).pure_quantum_time).v), 1000)))))))
                           ELSE Get(q.metrics)
                 IN IF ~IsSome(cm.enhanced) \/ ~IsSome(qm.enhanced) THEN Panic
                    ELSE LET ceMs == intFromAny(Get(cm.enhanced).opt_time_ms)
                             qeMs == intFromAny(Get(qm.enhanced).opt_time_ms)
                         IN Emit(Entry(i, q.graph_index, cm, qm, ceMs, qeMs))

LoopBody(rv, i, c, q) ==
    IF rv = RevLegacy THEN LoopLegacy(i, c, q)
    ELSE IF rv = RevRouted THEN LoopRouted(i, c, q)
    ELSE LoopMixed(i, c, q)

\* The perGraph loop, from position i (0-based) with acc built so far:
\* for i := 0; i < min(len(rClass.Results), len(rQuant.Results)); i++
RECURSIVE LoopFrom(_, _, _, _, _)
LoopFrom(rv, cRes, qRes, i, acc) ==
    IF ~(i < min(Len(cRes), Len(qRes))) THEN [panic |-> FALSE, perGraph |-> acc]
    ELSE LET b == LoopBody(rv, i, cRes[i + 1], qRes[i + 1])
         IN IF b.kind = "panic" THEN [panic |-> TRUE, perGraph |-> acc]
            ELSE LoopFrom(rv, cRes, qRes, i + 1,
                          IF b.kind = "emit" THEN Append(acc, Get(b.entry)) ELSE acc)

BuildPerGraph(rv, cRes, qRes) == LoopFrom(rv, cRes, qRes, 0, <<>>)

(***************************************************************************)
(* Sample values the harnesses and the backends draw from.                 *)
(***************************************************************************)
GraphIndices == {0, 1}
Ms(n) == Some(Float(n * Micro))                 \* a JSON number of n ms
Sec(us) == Some(Float(us))                      \* a JSON number of us microseconds, in s
LegacyMetrics(n) == Some(Metrics(Some(Enhanced(Ms(n)))))
Route(t) == [isMap |-> TRUE, quantum |-> Some([time |-> t])]
Stats(t) == Some([pure_quantum_time |-> t])
NotAMap == Item(FALSE, None, None, None, None)

\* Classical items: with metrics.enhanced, or without metrics.
ClassicalItems ==
    {Item(TRUE, Some(g), m, None, None) : g \in GraphIndices, m \in {LegacyMetrics(1), None}}

\* Quantum items: the legacy shape, the routed shape, or neither.
QuantumItems ==
    {Item(TRUE, Some(g), LegacyMetrics(2), None, None) : g \in GraphIndices}
    \cup {Item(TRUE, Some(g), None, Stats(Sec(3000)), Some(<<Route(Sec(3000))>>)) : g \in GraphIndices}
    \cup {Item(TRUE, Some(g), None, None, None) : g \in GraphIndices}

\* Results is []map[string]any in "legacy" and "routed" (an item that is no
\* object fails the decode), []any in "mixed".
ItemsOf(rv, items) == IF rv = RevMixed THEN items \cup {NotAMap} ELSE items

SeqsUpTo(S, n) == UNION {[1..k -> S] : k \in 0..n}

(***************************************************************************)
(* A `process` request. pc is the position of its goroutine in `process`:  *)
(*   intake   before the method, form, file and extension checks           *)
(*   save     before MkdirTemp / Create / Copy                             *)
(*   launch1, wait1   the first runPython (classical; the hybrid runner in *)
(*                    "single"), before exec and while cmd.Run blocks      *)
(*   launch2, wait2   the second runPython (quantum)                       *)
(*   decode   before the json.Unmarshal calls                              *)
(*   reg1, reg2   before each `if CSVBase64 != ""` block                   *)
(*   build    before the perGraph loop and writeJSON                       *)
(*   cleanup  the handler returns: the deferred os.RemoveAll(tmpDir) runs  *)
(*   done     the request has completed                                    *)
(* deadline is the clock reading at which the request's context expires    *)
(* (0 before the context exists).                                          *)
(* upload, exit1/exit2, trace, launched and failed record what happened to *)
(* the request, art1/art2 the records it passed to store.Store; out1/out2 *)
(* and id1/id2 are the handler's local variables.                         *)
(***************************************************************************)
Reqs == 1..NumReqs

\* requestTimeout = 30 * time.Minute, in steps of the clock (one step of the
\* model's clock is a quarter of an hour).
RequestTimeout == 2

IdleReq ==
    [pc |-> "intake", upload |-> None, tmp |-> "none", spill |-> FALSE,
     deadline |-> 0, launched |-> <<>>, argv |-> <<>>, running |-> "none", exit1 |-> "none", exit2 |-> "none",
     out1 |-> None, out2 |-> None, id1 |-> 0, id2 |-> 0, art1 |-> None, art2 |-> None,
     resp |-> None, panicked |-> FALSE, failed |-> "none", trace |-> <<>>]

NoStore == [h \in {} |-> None]

\* The gateway at start-up with the requests rs about to arrive.
ServerIdle(rs) == /\ now = 1
                  /\ store = NoStore
                  /\ req = [r \in rs |-> IdleReq]
                  /\ dl = None

\* The text a backend wrote to one of its two channels.
StdoutOf(b) == [from |-> b, ch |-> "stdout"]
StderrOf(b) == [from |-> b, ch |-> "stderr"]

\* http.Error(w, msg, status), http.Error(w, msg + text, status) and
\* writeJSON(w, 200, out). detail is the backend text appended to the body.
ErrorResp(status, msg) ==
    [status |-> status, body |-> msg, detail |-> None, envelope |-> None]
ErrorRespWith(status, msg, text) ==
    [status |-> status, body |-> msg, detail |-> Some(text), envelope |-> None]
JSONResp(out) == [status |-> 200, body |-> "json", detail |-> None, envelope |-> Some(out)]

\* A handler that returns after `defer os.RemoveAll(tmpDir)` was registered
\* runs it; one that returns before has nothing to run.
Return(q, stage, resp) ==
    [q EXCEPT !.pc = "cleanup", !.resp = Some(resp), !.failed = stage,
              !.running = "none", !.out1 = None, !.out2 = None]
ReturnEarly(q, stage, resp) ==
    [q EXCEPT !.pc = "done", !.resp = Some(resp), !.failed = stage, !.spill = FALSE]

(***************************************************************************)
(* Upload intake.                                                          *)
(***************************************************************************)
Exts == {".csv", ".txt", ".exe"}

\* The value of a form field, r.FormValue(key): "" when the field is
\* missing, a text that is no integer, or the decimal text of an integer.
Absent == [k |-> "absent", v |-> 0]
Text == [k |-> "text", v |-> 0]
Num(n) == [k |-> "int", v |-> n]
FormFields ==
    [iterations : {Absent, Text, Num(5)},
     baseline_limit : {Absent, Text, Num(5), Num(20)},
     layers : {Absent, Text, Num(5)},
     max_qubits : {Absent, Text, Num(5)},
     use_mirea : {"", "true"}]
NoFields ==
    [iterations |-> Absent, baseline_limit |-> Absent, layers |-> Absent,
     max_qubits |-> Absent, use_mirea |-> ""]
\* The submissions a client can send: a wrong method, a malformed multipart
\* body, a form without the file field, or a file with an extension that is
\* within or beyond 64 MiB.
Uploads ==
    {[method |-> "GET", form |-> "ok", hasFile |-> FALSE, ext |-> "", oversize |-> FALSE,
      fields |-> NoFields],
     [method |-> "POST", form |-> "malformed", hasFile |-> FALSE, ext |-> "", oversize |-> FALSE,
      fields |-> NoFields],
     [method |-> "POST", form |-> "ok", hasFile |-> FALSE, ext |-> "", oversize |-> FALSE,
      fields |-> NoFields]}
    \cup [method : {"POST"}, form : {"ok"}, hasFile : {TRUE}, ext : Exts, oversize : BOOLEAN,
          fields : {NoFields}]
ValidUploads ==
    {[method |-> "POST", form |-> "ok", hasFile |-> TRUE, ext |-> ".csv", oversize |-> FALSE,
      fields |-> NoFields]}
\* Valid submissions with every combination of the tuning fields.
TunedUploads ==
    [method : {"POST"}, form : {"ok"}, hasFile : {TRUE}, ext : {".csv"}, oversize : {FALSE},
     fields : FormFields]

\* r.ParseMultipartForm(64 << 20): the argument is maxMemory. A file part
\* beyond it is not refused: net/http writes the excess to a temporary file
\* of its own and the call succeeds. It fails on a malformed body.
ParseMultipartForm(u) ==
    [err |-> u.form = "malformed", spill |-> (u.form = "ok" /\ u.hasFile /\ u.oversize)]

\* process, from its entry to the extension check (and the reading of the
\* tuning parameters, which cannot fail).
Intake(r, uploads) ==
    /\ req[r].pc = "intake"
    /\ \E u \in uploads :
         LET q == [req[r] EXCEPT !.upload = Some(u), !.trace = <<"intake">>]
             form == ParseMultipartForm(u)
         IN req' = [req EXCEPT ![r] =
              IF u.method # "POST"
                THEN ReturnEarly(q, "intake", ErrorResp(405, "method not allowed"))
              ELSE IF form.err
                THEN ReturnEarly(q, "intake", ErrorResp(400, "bad form"))
              ELSE IF ~u.hasFile
                THEN ReturnEarly([q EXCEPT !.spill = form.spill], "intake",
                                 ErrorResp(400, "file required"))
              ELSE IF u.ext # ".csv" /\ u.ext # ".txt"
                THEN ReturnEarly([q EXCEPT !.spill = form.spill], "intake",
                                 ErrorResp(400, "only .csv or .txt files are allowed"))
              ELSE [q EXCEPT !.pc = "save", !.spill = form.spill]]
    /\ UNCHANGED <<rev, now, store, dl, agg, spd, py, ui, hook>>

\* What the file system answers to MkdirTemp, Create and Copy.
FsOutcomes == {"ok", "mkdir fails", "create fails", "copy fails"}
FsHealthy == {"ok"}

\* process, from os.MkdirTemp to context.WithTimeout: the submission is
\* saved in a fresh directory, whose removal is deferred once it exists, and
\* the context of the request is created with its deadline.
SaveUpload(r, fsOutcomes) ==
    /\ req[r].pc = "save"
    /\ \E fs \in fsOutcomes :
         LET q == [req[r] EXCEPT !.trace = Append(@, "save")]
         IN req' = [req EXCEPT ![r] =
              IF fs = "mkdir fails"
                THEN ReturnEarly(q, "save", ErrorResp(500, "temp dir error"))
              ELSE IF fs = "create fails"
                THEN Return([q EXCEPT !.tmp = "dir"], "save", ErrorResp(500, "create file error"))
              ELSE IF fs = "copy fails"
                THEN Return([q EXCEPT !.tmp = "file"], "save", ErrorResp(500, "save file error"))
              ELSE [q EXCEPT !.tmp = "file", !.pc = "launch1",
                             !.deadline = now + RequestTimeout]]
    /\ UNCHANGED <<rev, now, store, dl, agg, spd, py, ui, hook>>

(***************************************************************************)
(* Solver invocation. A backend's stdout is a payload: whether it is       *)
(* well-formed JSON of the shape of `resp`, its csv_base64 ("" when empty, *)
(* "valid" or "invalid" base64), its csv_filename and its results.         *)
(***************************************************************************)
Payload(json, csv, name, results) ==
    [json |-> json, csv_base64 |-> csv, csv_filename |-> name, results |-> results]
Malformed == Payload(FALSE, "", "", <<>>)

CsvSamples == {<<"", "">>, <<"valid", "routes.csv">>, <<"valid", "">>, <<"invalid", "routes.csv">>}

\* The result lists a backend of the running gateway may print.
ResultSamples(rv, b) ==
    IF rv = RevSingle THEN {<<>>}
    ELSE IF b = "classical"
      THEN {<<Item(TRUE, Some(0), LegacyMetrics(1), None, None)>>}
           \cup (IF rv = RevMixed THEN {<<NotAMap>>} ELSE {})
    ELSE {<<Item(TRUE, Some(0), LegacyMetrics(2), None, None)>>,
          <<Item(TRUE, Some(0), None, Stats(Sec(3000)), Some(<<Route(Sec(3000))>>))>>}

Payloads(rv, b) ==
    {Malformed} \cup {Payload(TRUE, c[1], c[2], rs) : c \in CsvSamples, rs \in ResultSamples(rv, b)}

Backends == {"runner", "classical", "quantum"}

\* How a backend can end by itself: exit status 0 with a payload on stdout,
\* or a nonzero exit status. (The kill at the deadline is a step of the clock.)
Outcomes ==
    [rv \in Revs, b \in Backends |->
        {[exit |-> "nonzero", out |-> None]}
        \cup {[exit |-> "ok", out |-> Some(p)] : p \in Payloads(rv, b)}]

\* The outcomes of backends that work: exit status 0 and a decodable payload
\* that carries a CSV and one item that every revision accepts.
HealthyOutcomes ==
    [rv \in Revs, b \in Backends |->
        {[exit |-> "ok", out |-> Some(Payload(TRUE, "valid", "routes.csv", rs))] :
            rs \in IF rv = RevSingle THEN {<<>>}
                   ELSE {<<Item(TRUE, Some(0), LegacyMetrics(1), Stats(Sec(3000)), None)>>}}]

\* The outcomes of backends that exit with status 0 and a payload carrying a
\* CSV and any list of at most MaxItems results, complete or not.
BatchClassical == {Item(TRUE, Some(0), m, None, None) : m \in {LegacyMetrics(1), None}}
BatchQuantum ==
    {Item(TRUE, Some(0), LegacyMetrics(2), None, None),
     Item(TRUE, Some(0), None, Stats(Sec(3000)), Some(<<Route(Sec(3000))>>)),
     Item(TRUE, Some(0), None, None, None)}
BatchOutcomes ==
    [rv \in Revs, b \in Backends |->
        {[exit |-> "ok", out |-> Some(Payload(TRUE, "valid", "routes.csv", rs))] :
            rs \in IF rv = RevSingle THEN {<<>>}
                   ELSE SeqsUpTo(IF b = "classical" THEN BatchClassical ELSE BatchQuantum,
                                 MaxItems)}]

FirstBackend(rv) == IF rv = RevSingle THEN "runner" ELSE "classical"

\* The error responses of `process` to a failed runPython: a fixed text in
\* "single"; string(out), the stdout that runPython returned with the error,
\* in "mixed"; a prefix followed by string(out) in "legacy" and "routed".
RunFailed(rv, b) ==
    IF rv = RevSingle THEN ErrorResp(500, "Python script failed")
    ELSE IF rv = RevMixed THEN ErrorRespWith(400, "stdout of the backend", StdoutOf(b))
    ELSE IF b = "classical"
      THEN ErrorRespWith(400, "Classical optimization failed", StdoutOf(b))
    ELSE ErrorRespWith(400, "Quantum optimization failed", StdoutOf(b))

\* The paths of a request. os.MkdirTemp("", "upload-*") returns a directory
\* that did not exist, so tmpDir is a name of the request's own; dstPath is
\* the submission in it.
tmpDir(r) == <<"upload", r>>
dstPath(r) == <<"upload", r, "file">>

\* The files that the argument list of an invocation names: the runner of
\* "single" and the classical runner get the submission; the quantum runner
\* gets the submission and, in "legacy" and "routed", the fixed --output.
ArgFiles(rv, b, r) ==
    IF b = "quantum" /\ rv \in {RevLegacy, RevRouted}
    THEN {dstPath(r), <<"/tmp/quantum_results.json">>}
    ELSE {dstPath(r)}

\* func getIntParam(r, key, def) int: the field as an integer, def when it
\* is missing or strconv.Atoi fails.
getIntParam(val, def) == IF val.k = "int" THEN val.v ELSE def

\* The tuning values of `process`: form fields in "legacy" and "routed",
\* constants in "single" and "mixed". reroute_fraction is in hundredths.
Tuning(rv, f) ==
    IF rv = RevSingle
      THEN [iterations |-> 15, reroute_fraction |-> 10, mirea_samples |-> 3]
    ELSE IF rv = RevMixed
      THEN [iterations |-> 1, baselineLimit |-> 100, qaoaLayers |-> 1, maxQubits |-> 25,
            useMirea |-> FALSE]
    ELSE [iterations |-> getIntParam(f.iterations, 1),
          baselineLimit |-> getIntParam(f.baseline_limit, 100),
          qaoaLayers |-> getIntParam(f.layers, 2),
          maxQubits |-> getIntParam(f.max_qubits, 25),
          useMirea |-> (f.use_mirea = "true")]

\* The argument list of an invocation, as its set of <<flag, value>> pairs:
\* itoa and %.2f print the number, a flag without a value is a switch that
\* is on. The file arguments are ArgFiles; the MIREA credentials are left
\* out.
Switch(on) == [k |-> "bool", v |-> IF on THEN 1 ELSE 0]
Args(rv, b, f) ==
    LET t == Tuning(rv, f)
    IN IF rv = RevSingle
         THEN {<<"--iterations", Num(t.iterations)>>,
               <<"--reroute-fraction", Num(t.reroute_fraction)>>,
               <<"--use-mirea", Switch(TRUE)>>, <<"--mirea-samples", Num(t.mirea_samples)>>}
       ELSE IF b = "classical"
         THEN {<<"--iterations", Num(t.iterations)>>,
               <<"--baseline-limit", Num(t.baselineLimit)>>}
       ELSE IF rv = RevMixed
         THEN {<<"--max-routes", Num(999999)>>, <<"--p-layers", Num(t.qaoaLayers)>>,
               <<"--workers", Num(4)>>}
       ELSE {<<"--max-routes", Num(min(10, t.baselineLimit))>>,
             <<"--p-layers", Num(t.qaoaLayers)>>}
            \cup (IF t.useMirea THEN {<<"--use-mirea", Switch(TRUE)>>} ELSE {})

\* The "parameters" map of the envelope, as its set of <<key, value>> pairs.
Parameters(rv, f) ==
    LET t == Tuning(rv, f)
    IN IF rv = RevSingle
         THEN {<<"solver_iterations", Num(t.iterations)>>,
               <<"reroute_fraction", Num(t.reroute_fraction)>>}
       ELSE {<<"iterations", Num(t.iterations)>>, <<"baseline_limit", Num(t.baselineLimit)>>,
             <<"qaoa_layers", Num(t.qaoaLayers)>>, <<"max_qubits", Num(t.maxQubits)>>,
             <<"mirea_enabled", Switch(t.useMirea)>>}

\* The backend that runs at position pc of `process`.
BackendAt(rv, pc) ==
    IF pc \in {"launch1", "wait1", "reg1"} THEN FirstBackend(rv) ELSE "quantum"

\* Launch with a context of its own for every invocation: runPython calls
\* context.WithTimeout itself.
Launch_ownDeadline(r) ==
    /\ req[r].pc \in {"launch1", "launch2"}
    /\ LET b == BackendAt(rev, req[r].pc)
       IN req' = [req EXCEPT ![r] =
            [@ EXCEPT !.pc = IF @ = "launch1" THEN "wait1" ELSE "wait2",
                      !.deadline = now + RequestTimeout,
                      !.launched = Append(@, b), !.running = b,
                      !.argv = Append(@, Args(rev, b, Get(req[r].upload).fields)),
                      !.trace = Append(@, "invoke")]]
    /\ UNCHANGED <<rev, now, store, dl, agg, spd, py, ui, hook>>

\* runPython up to cmd.Start, under the context of the request: the
\* subprocess is started, unless the context is done, in which case Start
\* returns its error, nothing is started and `process` answers as for any
\* failed run.
Launch(r) ==
    /\ req[r].pc \in {"launch1", "launch2"}
    /\ LET b == BackendAt(rev, req[r].pc)
           q == [req[r] EXCEPT !.trace = Append(@, "invoke")]
       IN req' = [req EXCEPT ![r] =
            IF now >= q.deadline
            THEN Return(IF q.pc = "launch1" THEN [q EXCEPT !.exit1 = "unstarted"]
                        ELSE [q EXCEPT !.exit2 = "unstarted"],
                        "invoke", RunFailed(rev, b))
            ELSE [q EXCEPT !.pc = IF @ = "launch1" THEN "wait1" ELSE "wait2",
                           !.launched = Append(@, b), !.running = b,
                           !.argv = Append(@, Args(rev, b, Get(q.upload).fields))]]
    /\ UNCHANGED <<rev, now, store, dl, agg, spd, py, ui, hook>>

\* Finish without the `return` after http.Error: the error response is
\* written and the handler goes on to its next stage.
Finish_noReturn(r, outcomes) ==
    /\ req[r].pc \in {"wait1", "wait2"}
    /\ LET first == req[r].pc = "wait1"
           b == BackendAt(rev, req[r].pc)
           ends == IF req[r].running = "none"
                   THEN {[exit |-> "timeout", out |-> None]}
                   ELSE outcomes[rev, b]
       IN \E o \in ends :
            LET q == IF first THEN [req[r] EXCEPT !.exit1 = o.exit, !.out1 = o.out, !.running = "none"]
                     ELSE [req[r] EXCEPT !.exit2 = o.exit, !.out2 = o.out, !.running = "none"]
                f == IF o.exit # "ok"
                     THEN [q EXCEPT !.resp = Some(RunFailed(rev, b)), !.failed = "invoke"]
                     ELSE q
            IN req' = [req EXCEPT ![r] =
                 IF first /\ rev # RevSingle THEN [f EXCEPT !.pc = "launch2"]
                 ELSE IF o.exit # "ok" THEN Return(q, "invoke", RunFailed(rev, b))
                 ELSE [f EXCEPT !.pc = "decode"]]
    /\ UNCHANGED <<rev, now, store, dl, agg, spd, py, ui, hook>>

\* Finish with one more attempt after a failed run: `process` calls
\* runPython again.
Finish_retry(r, outcomes) ==
    /\ req[r].pc \in {"wait1", "wait2"}
    /\ LET first == req[r].pc = "wait1"
           b == BackendAt(rev, req[r].pc)
           ends == IF req[r].running = "none"
                   THEN {[exit |-> "timeout", out |-> None]}
                   ELSE outcomes[rev, b]
       IN \E o \in ends :
            LET q == IF first THEN [req[r] EXCEPT !.exit1 = o.exit, !.out1 = o.out, !.running = "none"]
                     ELSE [req[r] EXCEPT !.exit2 = o.exit, !.out2 = o.out, !.running = "none"]
            IN req' = [req EXCEPT ![r] =
                 IF o.exit # "ok" /\ Len(q.launched) <= 2
                   THEN [q EXCEPT !.pc = IF first THEN "launch1" ELSE "launch2"]
                 ELSE IF o.exit # "ok" THEN Return(q, "invoke", RunFailed(rev, b))
                 ELSE IF first /\ rev # RevSingle THEN [q EXCEPT !.pc = "launch2"]
                 ELSE [q EXCEPT !.pc = "decode"]]
    /\ UNCHANGED <<rev, now, store, dl, agg, spd, py, ui, hook>>

\* cmd.Run returns, with the outcome of the backend or, when the deadline
\* killed it, with an error, and `process` checks the error of runPython.
Finish(r, outcomes) ==
    /\ req[r].pc \in {"wait1", "wait2"}
    /\ LET first == req[r].pc = "wait1"
           b == BackendAt(rev, req[r].pc)
           ends == IF req[r].running = "none"
                   THEN {[exit |-> "timeout", out |-> None]}
                   ELSE outcomes[rev, b]
       IN \E o \in ends :
            LET q == IF first THEN [req[r] EXCEPT !.exit1 = o.exit, !.out1 = o.out, !.running = "none"]
                     ELSE [req[r] EXCEPT !.exit2 = o.exit, !.out2 = o.out, !.running = "none"]
            IN req' = [req EXCEPT ![r] =
                 IF o.exit # "ok" THEN Return(q, "invoke", RunFailed(rev, b))
                 ELSE IF first /\ rev # RevSingle THEN [q EXCEPT !.pc = "launch2"]
                 ELSE [q EXCEPT !.pc = "decode"]]
    /\ UNCHANGED <<rev, now, store, dl, agg, spd, py, ui, hook>>

\* The json.Unmarshal calls of `process`, classical first.
Decode(r) ==
    /\ req[r].pc = "decode"
    /\ LET q == [req[r] EXCEPT !.trace = Append(@, "decode")]
       IN req' = [req EXCEPT ![r] =
            IF ~Get(q.out1).json
              THEN Return(q, "decode",
                     ErrorResp(500, IF rev = RevSingle THEN "Failed to parse python results"
                                    ELSE "Failed to parse classical results"))
            ELSE IF rev # RevSingle /\ ~Get(q.out2).json
              THEN Return(q, "decode", ErrorResp(500, "Failed to parse quantum results"))
            ELSE [q EXCEPT !.pc = "reg1"]]
    /\ UNCHANGED <<rev, now, store, dl, agg, spd, py, ui, hook>>

(***************************************************************************)
(* The artifact store.                                                     *)
(***************************************************************************)
\* func genID() string: the clock reading, printed. The handle "" is 0.
genID == now

\* func safeName(s, def string) string
safeName(n, def) == IF n = "" THEN def ELSE n

\* store.Store(id, rec)
Put(st, id, rec) == [h \in DOMAIN st \cup {id} |-> IF h = id THEN rec ELSE st[h]]

\* base64.StdEncoding.DecodeString of a backend's csv_base64: the bytes, and
\* on invalid input an error with the bytes decoded before it.
Base64Decode(r, b, csv) ==
    [err |-> csv = "invalid", bytes |-> [owner |-> r, from |-> b, whole |-> csv = "valid"]]

DefaultName(rv, b) ==
    IF rv = RevSingle THEN "submission.csv"
    ELSE IF b = "classical" THEN "classical_routes.csv" ELSE "quantum_routes.csv"

\* Register that stores the bytes whether or not the decoding succeeded,
\* in every revision.
Register_ignoreDecodeError(r) ==
    /\ req[r].pc \in {"reg1", "reg2"}
    /\ LET first == req[r].pc = "reg1"
           b == IF first THEN FirstBackend(rev) ELSE "quantum"
           p == IF first THEN Get(req[r].out1) ELSE Get(req[r].out2)
           d == Base64Decode(r, b, p.csv_base64)
           stored == p.csv_base64 # ""
           id == genID
           next == IF first /\ rev # RevSingle THEN "reg2" ELSE "build"
           rec == [Name |-> safeName(p.csv_filename, DefaultName(rev, b)), Data |-> d.bytes]
       IN IF stored
          THEN /\ store' = Put(store, id, rec)
               /\ req' = [req EXCEPT ![r] =
                    IF first
                    THEN [@ EXCEPT !.pc = next, !.id1 = id, !.art1 = Some(rec),
                                   !.trace = Append(@, "register")]
                    ELSE [@ EXCEPT !.pc = next, !.id2 = id, !.art2 = Some(rec),
                                   !.trace = Append(@, "register")]]
          ELSE /\ store' = store
               /\ req' = [req EXCEPT ![r] = [@ EXCEPT !.pc = next]]
    /\ UNCHANGED <<rev, now, dl, agg, spd, py, ui, hook>>

\* One `if CSVBase64 != ""` block of `process`: the CSV of a backend is
\* decoded and stored under a fresh id. "single" stores it only when the
\* decoding succeeded; the other revisions ignore the decoding error.
Register(r) ==
    /\ req[r].pc \in {"reg1", "reg2"}
    /\ LET first == req[r].pc = "reg1"
           b == IF first THEN FirstBackend(rev) ELSE "quantum"
           p == IF first THEN Get(req[r].out1) ELSE Get(req[r].out2)
           d == Base64Decode(r, b, p.csv_base64)
           stored == p.csv_base64 # "" /\ (rev = RevSingle => ~d.err)
           id == genID
           next == IF first /\ rev # RevSingle THEN "reg2" ELSE "build"
           rec == [Name |-> safeName(p.csv_filename, DefaultName(rev, b)), Data |-> d.bytes]
       IN IF stored
          THEN /\ store' = Put(store, id, rec)
               /\ req' = [req EXCEPT ![r] =
                    IF first
                    THEN [@ EXCEPT !.pc = next, !.id1 = id, !.art1 = Some(rec),
                                   !.trace = Append(@, "register")]
                    ELSE [@ EXCEPT !.pc = next, !.id2 = id, !.art2 = Some(rec),
                                   !.trace = Append(@, "register")]]
          ELSE /\ store' = store
               /\ req' = [req EXCEPT ![r] = [@ EXCEPT !.pc = next]]
    /\ UNCHANGED <<rev, now, dl, agg, spd, py, ui, hook>>

\* Envelope whose summary counts the classical results in place of the
\* records of perGraph.
Envelope_countsResults(rv, q, perGraph) ==
    IF rv = RevSingle
    THEN [perGraph |-> perGraph, downloads |-> [submission_csv |-> q.id1],
          parameters |-> Parameters(rv, Get(q.upload).fields),
          total_graphs |-> None]
    ELSE [perGraph |-> perGraph,
          downloads |-> [classical_csv |-> q.id1, quantum_csv |-> q.id2],
          parameters |-> Parameters(rv, Get(q.upload).fields),
          total_graphs |-> Some(Len(Get(q.out1).results))]

\* The envelope `out` of `process`.
Envelope(rv, q, perGraph) ==
    IF rv = RevSingle
    THEN [perGraph |-> perGraph, downloads |-> [submission_csv |-> q.id1],
          parameters |-> Parameters(rv, Get(q.upload).fields),
          total_graphs |-> None]
    ELSE [perGraph |-> perGraph,
          downloads |-> [classical_csv |-> q.id1, quantum_csv |-> q.id2],
          parameters |-> Parameters(rv, Get(q.upload).fields),
          total_graphs |-> Some(Len(perGraph))]

\* process, from the perGraph loop to writeJSON. "single" passes the
\* results of its runner through. A panic of the loop unwinds the handler:
\* nothing is written, and the deferred removal still runs.
BuildAndRespond(r) ==
    /\ req[r].pc = "build"
    /\ LET q == req[r]
           built == IF rev = RevSingle
                    THEN [panic |-> FALSE, perGraph |-> Get(q.out1).results]
                    ELSE BuildPerGraph(rev, Get(q.out1).results, Get(q.out2).results)
       IN req' = [req EXCEPT ![r] =
            IF built.panic
            THEN [q EXCEPT !.pc = "cleanup", !.panicked = TRUE, !.failed = "build",
                           !.trace = Append(@, "build"), !.out1 = None, !.out2 = None]
            ELSE Return([q EXCEPT !.trace = @ \o <<"build", "respond">>], "none",
                        JSONResp(Envelope(rev, q, built.perGraph)))]
    /\ UNCHANGED <<rev, now, store, dl, agg, spd, py, ui, hook>>

\* Cleanup with os.RemoveAll(tmpDir) at the end of the success path in
\* place of the deferred call.
Cleanup_onSuccessOnly(r) ==
    /\ req[r].pc = "cleanup"
    /\ req' = [req EXCEPT ![r] =
         [@ EXCEPT !.pc = "done",
                   !.tmp = IF IsSome(req[r].resp) /\ Get(req[r].resp).status = 200
                           THEN "removed" ELSE @,
                   !.spill = IF @ /\ req[r].panicked THEN TRUE ELSE FALSE]]
    /\ UNCHANGED <<rev, now, store, dl, agg, spd, py, ui, hook>>

\* The deferred os.RemoveAll(tmpDir); then the server finishes the request
\* and removes the temporary files of the multipart form, unless the
\* handler panicked.
Cleanup(r) ==
    /\ req[r].pc = "cleanup"
    /\ req' = [req EXCEPT ![r] =
         [@ EXCEPT !.pc = "done", !.tmp = "removed",
                   !.spill = IF @ /\ req[r].panicked THEN TRUE ELSE FALSE]]
    /\ UNCHANGED <<rev, now, store, dl, agg, spd, py, ui, hook>>

\* download without the `if !ok` check of store.Load: a missing record is
\* written as an empty one.
DownloadResp_noMissCheck(st, id) ==
    IF rev = RevSingle /\ id = 0 THEN [id |-> id, status |-> 400, rec |-> None]
    ELSE IF id \notin DOMAIN st THEN [id |-> id, status |-> 200, rec |-> None]
    ELSE [id |-> id, status |-> 200, rec |-> Some(st[id])]

\* func download, as a function of the store and of the query parameter id
\* ("" is 0): "single" refuses an empty id; an id that store.Load does not
\* find is answered 404; the record found is written with status 200.
DownloadResp(st, id) ==
    IF rev = RevSingle /\ id = 0 THEN [id |-> id, status |-> 400, rec |-> None]
    ELSE IF id \notin DOMAIN st THEN [id |-> id, status |-> 404, rec |-> None]
    ELSE [id |-> id, status |-> 200, rec |-> Some(st[id])]

\* A `download` request.
Download(id) ==
    /\ dl' = Some(DownloadResp(store, id))
    /\ UNCHANGED <<rev, now, store, req, agg, spd, py, ui, hook>>

\* Time passes. A step of the clock that reaches the deadline of a context
\* closes its Done channel, on which exec.CommandContext kills the
\* subprocess that runs under it.
Tick == /\ now < MaxClock
        /\ now' = now + 1
        /\ req' = [r \in DOMAIN req |->
                     IF req[r].running # "none" /\ req[r].deadline <= now + 1
                     THEN [req[r] EXCEPT !.running = "none"]
                     ELSE req[r]]
        /\ UNCHANGED <<rev, store, dl, agg, spd, py, ui, hook>>

Handles == 0..MaxClock

(***************************************************************************)
(* Spec: one `process` request with every submission, file-system answer   *)
(* and backend outcome, and any number of downloads.                       *)
(***************************************************************************)
Init == /\ rev \in Revs
        /\ ServerIdle({1})
        /\ ui = None
        /\ hook = None
        /\ agg = None
        /\ spd = None
        /\ py = None

Next == \/ \E r \in DOMAIN req : Intake(r, Uploads)
        \/ \E r \in DOMAIN req : SaveUpload(r, FsOutcomes)
        \/ \E r \in DOMAIN req : Launch(r)
        \/ \E r \in DOMAIN req : Finish(r, Outcomes)
        \/ \E r \in DOMAIN req : Decode(r)
        \/ \E r \in DOMAIN req : Register(r)
        \/ \E r \in DOMAIN req : BuildAndRespond(r)
        \/ \E r \in DOMAIN req : Cleanup(r)
        \/ \E id \in Handles : Download(id)
        \/ Tick

Spec == Init /\ [][Next]_vars

(***************************************************************************)
(* SpecConcurrent: NumReqs concurrent `process` requests with valid        *)
(* submissions and working backends, and any number of downloads.          *)
(***************************************************************************)
InitConcurrent == /\ rev \in Revs
                  /\ ServerIdle(Reqs)
                  /\ ui = None
                  /\ hook = None
                  /\ agg = None
                  /\ spd = None
                  /\ py = None

NextConcurrent == \/ \E r \in DOMAIN req : Intake(r, ValidUploads)
                  \/ \E r \in DOMAIN req : SaveUpload(r, FsHealthy)
                  \/ \E r \in DOMAIN req : Launch(r)
                  \/ \E r \in DOMAIN req : Finish(r, HealthyOutcomes)
                  \/ \E r \in DOMAIN req : Decode(r)
                  \/ \E r \in DOMAIN req : Register(r)
                  \/ \E r \in DOMAIN req : BuildAndRespond(r)
                  \/ \E r \in DOMAIN req : Cleanup(r)
                  \/ Tick

SpecConcurrent == InitConcurrent /\ [][NextConcurrent]_vars

(***************************************************************************)
(* SpecTuned: one `process` request with a valid file, every combination   *)
(* of the tuning fields of the form, and working backends.                 *)
(***************************************************************************)
NextTuned == \/ \E r \in DOMAIN req : Intake(r, TunedUploads)
             \/ \E r \in DOMAIN req : SaveUpload(r, FsHealthy)
             \/ \E r \in DOMAIN req : Launch(r)
             \/ \E r \in DOMAIN req : Finish(r, HealthyOutcomes)
             \/ \E r \in DOMAIN req : Decode(r)
             \/ \E r \in DOMAIN req : Register(r)
             \/ \E r \in DOMAIN req : BuildAndRespond(r)
             \/ \E r \in DOMAIN req : Cleanup(r)
             \/ Tick

SpecTuned == Init /\ [][NextTuned]_vars

(***************************************************************************)
(* SpecBatch: one request to a two-backend revision with a valid file and  *)
(* backends that print any lists of at most MaxItems results.              *)
(***************************************************************************)
InitBatch == /\ rev \in TwoBackendRevs
             /\ ServerIdle({1})
             /\ ui = None
             /\ hook = None
             /\ agg = None
             /\ spd = None
             /\ py = None

NextBatch == \/ \E r \in DOMAIN req : Intake(r, ValidUploads)
             \/ \E r \in DOMAIN req : SaveUpload(r, FsHealthy)
             \/ \E r \in DOMAIN req : Launch(r)
             \/ \E r \in DOMAIN req : Finish(r, BatchOutcomes)
             \/ \E r \in DOMAIN req : Decode(r)
             \/ \E r \in DOMAIN req : Register(r)
             \/ \E r \in DOMAIN req : BuildAndRespond(r)
             \/ \E r \in DOMAIN req : Cleanup(r)
             \/ Tick

SpecBatch == InitBatch /\ [][NextBatch]_vars

(***************************************************************************)
(* Harness of speedup: every pair of ints in range, applied once.          *)
(***************************************************************************)
InitSpeedup == /\ spd \in [baseMs : -MaxMs..MaxMs, testMs : -MaxMs..MaxMs, out : {None}]
               /\ agg = None
               /\ py = None
               /\ rev = RevLegacy
               /\ ServerIdle({1})
               /\ ui = None
               /\ hook = None

ApplySpeedup == /\ spd # None
                /\ spd.out = None
                /\ spd' = [spd EXCEPT !.out = Some(speedup(spd.baseMs, spd.testMs))]
                /\ UNCHANGED <<rev, now, store, req, dl, agg, py, ui, hook>>

SpecSpeedup == InitSpeedup /\ [][ApplySpeedup]_vars

(***************************************************************************)
(* Harness of the perGraph loop: every pair of decoded result lists of at  *)
(* most MaxItems items, in each two-backend revision, aggregated once.     *)
(***************************************************************************)
InitAggregate ==
    /\ \E rv \in TwoBackendRevs :
         agg \in [rev : {rv},
                  cRes : SeqsUpTo(ItemsOf(rv, ClassicalItems), MaxItems),
                  qRes : SeqsUpTo(ItemsOf(rv, QuantumItems), MaxItems),
                  out : {None}]
    /\ spd = None
    /\ py = None
    /\ rev = RevLegacy
    /\ ServerIdle({1})
    /\ ui = None
    /\ hook = None

\* Aggregate with a loop that stores the truncated time back into the
\* decoded classical record (ce["opt_time_ms"] = ceMs).
Aggregate_inPlace ==
    /\ agg # None
    /\ agg.out = None
    /\ LET built == BuildPerGraph(agg.rev, agg.cRes, agg.qRes)
           cs == agg.cRes
           hit == {built.perGraph[k].pos + 1 : k \in DOMAIN built.perGraph}
           Stored(c) == Item(c.isMap, c.graph_index,
                             Some(Metrics(Some(Enhanced(Some(GoInt(
                                 intFromAny(Get(Get(c.metrics).enhanced).opt_time_ms))))))),
                             c.stats, c.routes)
       IN agg' = [rev |-> agg.rev,
                  cRes |-> [i \in 1..Len(cs) |-> IF i \in hit THEN Stored(cs[i]) ELSE cs[i]],
                  qRes |-> agg.qRes,
                  out |-> Some(built)]
    /\ UNCHANGED <<rev, now, store, req, dl, spd, py, ui, hook>>

\* The perGraph loop of `process` applied to the decoded results. The loop
\* only reads rClass.Results and rQuant.Results; the maps it stores into
\* (graphData, its "compare" and, in "routed" and "mixed", its "quantum")
\* are made by the loop.
Aggregate == /\ agg # None
             /\ agg.out = None
             /\ agg' = [agg EXCEPT !.out = Some(BuildPerGraph(agg.rev, agg.cRes, agg.qRes))]
             /\ UNCHANGED <<rev, now, store, req, dl, spd, py, ui, hook>>

SpecAggregate == InitAggregate /\ [][Aggregate]_vars

(***************************************************************************)
(* Harness of the comparison: one classical and one quantum item with the  *)
(* times c and q, the quantum item in the shape the revision reads, and    *)
(* the perGraph loop applied once. Times are decimals of half milliseconds *)
(* up to MaxMs, and 50 ms and 100 ms.                                      *)
(***************************************************************************)
TimesMs == {h * (Micro \div 2) : h \in 0..(2 * MaxMs)} \cup {50 * Micro, 100 * Micro}

ClassicalWith(c) == Item(TRUE, Some(0), Some(Metrics(Some(Enhanced(Some(Float(c)))))), None, None)

\* q is in millionths of a millisecond; the routed shapes carry seconds.
QuantumWith(rv, q) ==
    IF rv = RevLegacy
      THEN Item(TRUE, Some(0), Some(Metrics(Some(Enhanced(Some(Float(q)))))), None, None)
    ELSE IF rv = RevMixed
      THEN Item(TRUE, Some(0), None, Stats(Sec(q \div 1000)), None)
    ELSE Item(TRUE, Some(0), None, Stats(None), Some(<<Route(Sec(q \div 1000))>>))

InitCompare ==
    /\ agg \in {[rev |-> rv, cRes |-> <<ClassicalWith(c)>>, qRes |-> <<QuantumWith(rv, q)>>,
                  out |-> None] : rv \in TwoBackendRevs, c \in TimesMs, q \in TimesMs}
    /\ spd = None
    /\ py = None
    /\ rev = RevLegacy
    /\ ServerIdle({1})
    /\ ui = None
    /\ hook = None

SpecCompare == InitCompare /\ [][Aggregate]_vars

(***************************************************************************)
(* Harness of the routed shape: one quantum item with stats and up to      *)
(* MaxRoutes routes of 0.005 s, 0.01 s, 0.02 s, without a time or without  *)
(* the quantum object, in the revisions that read stats.                   *)
(***************************************************************************)
RouteSamples ==
    {Route(Sec(5000)), Route(Sec(10000)), Route(Sec(20000)), Route(None),
     [isMap |-> TRUE, quantum |-> None]}

RoutedItem(rs) == Item(TRUE, Some(0), None, Stats(Sec(7000)), Some(rs))

InitRoutes ==
    /\ agg \in {[rev |-> rv, cRes |-> <<ClassicalWith(Micro)>>, qRes |-> <<RoutedItem(rs)>>,
                  out |-> None] : rv \in {RevMixed, RevRouted},
                                  rs \in SeqsUpTo(RouteSamples, MaxRoutes)}
    /\ spd = None
    /\ py = None
    /\ rev = RevLegacy
    /\ ServerIdle({1})
    /\ ui = None
    /\ hook = None

SpecRoutes == InitRoutes /\ [][Aggregate]_vars

(***************************************************************************)
(* runPython and its harness. A run of a backend is the sequence of the    *)
(* chunks it wrote, each to stdout or to stderr, and the way it ended.     *)
(***************************************************************************)
Chunks == [ch : {"stdout", "stderr"}, b : {"{", "#"}]
Exits == {"ok", "nonzero", "timeout"}
IsStdout(w) == w.ch = "stdout"
IsStderr(w) == w.ch = "stderr"

\* runPython with cmd.CombinedOutput(): both channels in one buffer.
runPython_combinedOutput(rv, writes, exit) ==
    [payload |-> writes, err |-> exit # "ok", logged |-> <<>>]

\* func runPython(ctx, args) ([]byte, error): stdout and stderr are two
\* buffers ("mixed" reads a pipe of stdout and leaves stderr unset, which
\* discards it); stderr is logged when not empty; the bytes returned are
\* those of stdout, but "single" returns nil with an error.
runPython(rv, writes, exit) ==
    LET stdout == SelectSeq(writes, IsStdout)
        stderr == SelectSeq(writes, IsStderr)
        err == exit # "ok"
    IN [payload |-> IF rv = RevSingle /\ err THEN <<>> ELSE stdout,
        err |-> err,
        logged |-> IF rv = RevMixed THEN <<>> ELSE stderr]

InitRunPython == /\ py \in [rev : Revs, writes : SeqsUpTo(Chunks, MaxWrites),
                             exit : Exits, out : {None}]
                 /\ agg = None
                 /\ spd = None
                 /\ rev = RevLegacy
                 /\ ServerIdle({1})
                 /\ ui = None
                 /\ hook = None

ApplyRunPython == /\ py # None
                  /\ py.out = None
                  /\ py' = [py EXCEPT !.out = Some(runPython(py.rev, py.writes, py.exit))]
                  /\ UNCHANGED <<rev, now, store, req, dl, agg, spd, ui, hook>>

SpecRunPython == InitRunPython /\ [][ApplyRunPython]_vars

(***************************************************************************)
(* The frontend, src/frontend/src/utils/calculations.ts. A JavaScript      *)
(* number is a finite value, kept as the exact quotient num/den of two     *)
(* integers, or one of the IEEE values NaN, +Infinity, -Infinity.          *)
(***************************************************************************)
JsNum(n, d) == [k |-> "finite", num |-> n, den |-> d]
JsNaN == [k |-> "NaN", num |-> 0, den |-> 0]
JsInf(sign) == [k |-> "Infinity", num |-> sign, den |-> 0]
JsIsFinite(x) == x.k = "finite"
JsIsZero(x) == x.k = "finite" /\ x.num = 0

\* a / b of two integers: x/0 is an infinity of the sign of x, 0/0 is NaN.
JsDiv(a, b) ==
    IF b # 0 THEN JsNum(a, b)
    ELSE IF a = 0 THEN JsNaN
    ELSE JsInf(IF a > 0 THEN 1 ELSE -1)

\* x * n and x / n for an integer n > 0.
JsTimes(x, n) == IF x.k = "finite" THEN JsNum(x.num * n, x.den) ELSE x
JsOver(x, n) == IF x.k = "finite" THEN JsNum(x.num, x.den * n) ELSE x

\* x + y: NaN absorbs, opposite infinities give NaN, an infinity absorbs
\* every finite value.
JsAdd(x, y) ==
    IF x.k = "NaN" \/ y.k = "NaN" THEN JsNaN
    ELSE IF x.k = "Infinity" /\ y.k = "Infinity"
      THEN (IF x.num = y.num THEN x ELSE JsNaN)
    ELSE IF x.k = "Infinity" THEN x
    ELSE IF y.k = "Infinity" THEN y
    ELSE JsNum(x.num * y.den + y.num * x.den, x.den * y.den)

\* One element of perGraph, with the two fields the function reads.
GraphResult(c, q) ==
    [classical |-> [enhanced |-> [total_distance |-> c]],
     quantum |-> [enhanced |-> [total_distance |-> q]]]

\* ((classicalDist - quantumDist) / classicalDist) * 100
Improvement(graph) ==
    LET classicalDist == graph.classical.enhanced.total_distance
        quantumDist == graph.quantum.enhanced.total_distance
    IN JsTimes(JsDiv(classicalDist - quantumDist, classicalDist), 100)

\* improvements.reduce((acc, val) => acc + val, 0)
RECURSIVE JsSum(_)
JsSum(vals) ==
    IF vals = <<>> THEN JsNum(0, 1)
    ELSE JsAdd(JsSum(SubSeq(vals, 1, Len(vals) - 1)), vals[Len(vals)])

\* export function calculateAverageImprovement(results): perGraph is None
\* when the key is absent.
calculateAverageImprovement(perGraph) ==
    IF perGraph = None \/ Len(Get(perGraph)) = 0 THEN JsNum(0, 1)
    ELSE LET improvements == [i \in 1..Len(Get(perGraph)) |-> Improvement(Get(perGraph)[i])]
         IN JsOver(JsSum(improvements), Len(improvements))

\* Harness of calculateAverageImprovement: every perGraph of at most
\* MaxItems items whose distances are whole numbers up to MaxDist.
GraphResults == {GraphResult(c, q) : c \in 0..MaxDist, q \in 0..MaxDist}

InitImprovement ==
    /\ ui \in [perGraph : {None} \cup {Some(s) : s \in SeqsUpTo(GraphResults, MaxItems)},
               out : {None}]
    /\ hook = None
    /\ agg = None
    /\ spd = None
    /\ py = None
    /\ rev = RevLegacy
    /\ ServerIdle({1})

ApplyImprovement ==
    /\ ui # None
    /\ ui.out = None
    /\ ui' = [ui EXCEPT !.out = Some(calculateAverageImprovement(ui.perGraph))]
    /\ UNCHANGED <<rev, now, store, req, dl, agg, spd, py, hook>>

SpecImprovement == InitImprovement /\ [][ApplyImprovement]_vars

(***************************************************************************)
(* The upload screen: validateFile of calculations.ts, and the submission  *)
(* of a file it accepted to `process`. A file name is the sequence of its  *)
(* parts between dots (name.split('.')); the parts hold no path separator. *)
(***************************************************************************)
MAX_FILE_SIZE == 67108864
ALLOWED_EXTENSIONS == {"csv", "txt"}

NameParts == {"data", "csv", "CSV", "txt", "exe", ""}
FileNames == UNION {[1..k -> NameParts] : k \in 1..MaxParts}
FileSizes == {MAX_FILE_SIZE - 1, MAX_FILE_SIZE, MAX_FILE_SIZE + 1}
Files == [name : FileNames, size : FileSizes]

\* String.prototype.toLowerCase on a part.
toLowerCase(s) == IF s = "CSV" THEN "csv" ELSE s

\* export function validateFile(file: File): ValidationResult
validateFile(file) ==
    LET extension == toLowerCase(file.name[Len(file.name)])
        badExt == extension = "" \/ extension \notin ALLOWED_EXTENSIONS
        badSize == file.size > MAX_FILE_SIZE
    IN [valid |-> ~badExt /\ ~badSize,
        errors |-> (IF badExt THEN <<"Only CSV, TXT files are supported">> ELSE <<>>)
                   \o (IF badSize THEN <<"File size must be less than 64MB">> ELSE <<>>)]

\* filepath.Ext(header.Filename): the suffix from the last dot of the name,
\* "" when the name has no dot.
filepathExt(name) ==
    IF Len(name) < 2 THEN ""
    ELSE LET last == name[Len(name)]
         IN CASE last = "csv" -> ".csv"
              [] last = "CSV" -> ".CSV"
              [] last = "txt" -> ".txt"
              [] last = "exe" -> ".exe"
              [] last = "data" -> ".data"
              [] last = "" -> "."

\* The multipart request that the frontend sends for a file.
UploadOf(file) ==
    [method |-> "POST", form |-> "ok", hasFile |-> TRUE, ext |-> filepathExt(file.name),
     oversize |-> file.size > 64 * (2 ^ 20), fields |-> NoFields]

InitUpload ==
    /\ rev \in Revs
    /\ ui \in [file : Files, out : {None}]
    /\ hook = None
    /\ agg = None
    /\ spd = None
    /\ py = None
    /\ now = 1
    /\ store = NoStore
    /\ req = [r \in {1} |-> IdleReq]
    /\ dl = None

\* handleDrop / handleFileInput of UploadScreen.tsx.
Validate ==
    /\ ui # None
    /\ ui.out = None
    /\ ui' = [ui EXCEPT !.out = Some(validateFile(ui.file))]
    /\ UNCHANGED <<rev, now, store, req, dl, agg, spd, py, hook>>

\* A file that was accepted is selected and submitted; `process` runs its
\* intake checks on it.
Submit(r) ==
    /\ ui # None
    /\ IsSome(ui.out)
    /\ Get(ui.out).valid
    /\ Intake(r, {UploadOf(ui.file)})

NextUpload == \/ Validate
              \/ \E r \in DOMAIN req : Submit(r)

SpecUpload == InitUpload /\ [][NextUpload]_vars

(***************************************************************************)
(* The hook useOptimization of src/frontend/src/hooks/useOptimization.ts:  *)
(* its four state cells, and the processFile calls of its consumers. A     *)
(* call is idle (not made yet), inflight (awaiting api.processFile), ok or *)
(* failed. The code of a call after its await runs to its end in one step. *)
(***************************************************************************)
HookFiles == {"a.csv", "b.csv"}
Calls == 1..MaxCalls
IdleCall == [st |-> "idle", file |-> None]

\* The messages of the errors that api.processFile throws.
ApiErrors == {"Connection failed. Is the server running on port 9000?",
              "Server error: only .csv or .txt files are allowed",
              "Processing failed on server"}

\* The catch block of processFile: the AppError for an error message.
AppErrorOf(errorMessage) ==
    IF errorMessage = "Connection failed. Is the server running on port 9000?"
      THEN [type |-> "network", message |-> "Connection failed"]
    ELSE IF errorMessage = "Server error: only .csv or .txt files are allowed"
      THEN [type |-> "processing", message |-> "Processing failed"]
    ELSE [type |-> "unknown", message |-> errorMessage]

InitHook ==
    /\ hook = [uploadedFile |-> None, isProcessing |-> FALSE, results |-> None,
               error |-> None, calls |-> [c \in Calls |-> IdleCall]]
    /\ ui = None
    /\ agg = None
    /\ spd = None
    /\ py = None
    /\ rev = RevSingle
    /\ ServerIdle({1})

\* processFile(file) up to its await.
ProcessFileStart(c, file) ==
    /\ hook # None
    /\ hook.calls[c].st = "idle"
    /\ hook' = [hook EXCEPT !.isProcessing = TRUE, !.error = None,
                            !.calls[c] = [st |-> "inflight", file |-> Some(file)]]
    /\ UNCHANGED <<rev, now, store, req, dl, agg, spd, py, ui>>

\* api.processFile resolved: the rest of the try block, then finally.
ProcessFileResolve(c) ==
    /\ hook # None
    /\ hook.calls[c].st = "inflight"
    /\ hook' = [hook EXCEPT !.results = Some([responseFor |-> Get(hook.calls[c].file)]),
                            !.uploadedFile = hook.calls[c].file,
                            !.isProcessing = FALSE,
                            !.calls[c].st = "ok"]
    /\ UNCHANGED <<rev, now, store, req, dl, agg, spd, py, ui>>

\* api.processFile rejected: the catch block, then finally.
ProcessFileReject(c, errorMessage) ==
    /\ hook # None
    /\ hook.calls[c].st = "inflight"
    /\ hook' = [hook EXCEPT !.error = Some(AppErrorOf(errorMessage)),
                            !.isProcessing = FALSE,
                            !.calls[c].st = "failed"]
    /\ UNCHANGED <<rev, now, store, req, dl, agg, spd, py, ui>>

\* const reset = useCallback(...)
HookReset ==
    /\ hook # None
    /\ hook' = [hook EXCEPT !.uploadedFile = None, !.results = None, !.error = None,
                            !.isProcessing = FALSE]
    /\ UNCHANGED <<rev, now, store, req, dl, agg, spd, py, ui>>

NextHook == \/ \E c \in Calls, f \in HookFiles : ProcessFileStart(c, f)
            \/ \E c \in Calls : ProcessFileResolve(c)
            \/ \E c \in Calls, m \in ApiErrors : ProcessFileReject(c, m)
            \/ HookReset

SpecHook == InitHook /\ [][NextHook]_vars

\* C2 (as stated): for all ints baseMs and testMs, speedup is >= 0, is 0
\* whenever testMs <= 0, and is never NaN or Infinity.
C2_SpeedupNeverNegative ==
    (spd # None /\ IsSome(spd.out)) =>
        /\ IsFinite(Get(spd.out))
        /\ IsNonNeg(Get(spd.out))
        /\ (spd.testMs <= 0 => IsZero(Get(spd.out)))

\* C2 (amended): speedup is never NaN or Infinity, is exactly 0 whenever
\* testMs <= 0, is baseMs / testMs otherwise, and is >= 0 whenever
\* baseMs >= 0.
C2_SpeedupGuarded ==
    (spd # None /\ IsSome(spd.out)) =>
        LET x == Get(spd.out)
        IN /\ IsFinite(x)
           /\ (spd.testMs <= 0 => IsZero(x))
           /\ (spd.testMs > 0 => x.num * spd.testMs = spd.baseMs * x.den)
           /\ (spd.baseMs >= 0 => IsNonNeg(x))

\* Witness of C2: speedup was applied to a zero test time and a positive base.
C2_Witness == spd # None /\ IsSome(spd.out) /\ spd.testMs = 0 /\ spd.baseMs > 0

(***************************************************************************)
(* Properties.                                                             *)
(***************************************************************************)
Range(f) == {f[i] : i \in DOMAIN f}
Done(r) == req[r].pc = "done"
Responded(r) == IsSome(req[r].resp)
Status(r) == Get(req[r].resp).status
ClientError(st) == st >= 400 /\ st <= 499
Before(tr, a, b) == \A j \in DOMAIN tr : tr[j] = b => \E i \in 1..(j - 1) : tr[i] = a

\* C1: in every run that ends in a 200 envelope (the loop did not panic),
\* the graph indices of the items of perGraph are the indices that both the
\* classical and the quantum backend reported, never a superset: no item
\* carries an index that only one backend reported.
EmittedIndices == {e.graph_index : e \in Range(Get(agg.out).perGraph)}
CommonIndices ==
    {c.graph_index : c \in Range(agg.cRes)} \cap {q.graph_index : q \in Range(agg.qRes)}
C1_EmittedIndicesAreCommon ==
    (agg # None /\ IsSome(agg.out) /\ ~Get(agg.out).panic) =>
        EmittedIndices \subseteq CommonIndices

\* C3: a request whose file is larger than 64 MiB is answered with a client
\* error, and no temporary file or directory is written and no solver
\* subprocess is launched for it.
Oversize(r) == IsSome(req[r].upload) /\ Get(req[r].upload).hasFile /\ Get(req[r].upload).oversize
C3_OversizeRejectedBeforeAnyWrite ==
    \A r \in DOMAIN req :
        Oversize(r) => /\ req[r].tmp = "none"
                       /\ ~req[r].spill
                       /\ req[r].launched = <<>>
                       /\ (Responded(r) => ClientError(Status(r)))

\* C4: two registrations of different concurrent requests never get the
\* same handle, and every handle a request got resolves, through download,
\* to the name and bytes that this request stored under it.
Registrations == {<<r, k>> \in (DOMAIN req) \X {1, 2} :
                     IF k = 1 THEN req[r].id1 # 0 ELSE req[r].id2 # 0}
HandleOf(g) == IF g[2] = 1 THEN req[g[1]].id1 ELSE req[g[1]].id2
ArtifactOf(g) == IF g[2] = 1 THEN req[g[1]].art1 ELSE req[g[1]].art2
C4_HandlesDisjointAndRetrievable ==
    /\ \A g, h \in Registrations : g[1] # h[1] => HandleOf(g) # HandleOf(h)
    /\ \A g \in Registrations :
         LET d == DownloadResp(store, HandleOf(g))
         IN d.status = 200 /\ d.rec \in {req[g[1]].art1, req[g[1]].art2}

\* C5 (as stated): download answers a handle that was never issued with 404.
Issued(id) == \E g \in Registrations : HandleOf(g) = id
FailureKind(body) ==
    CASE body \in {"method not allowed", "bad form", "file required",
                   "only .csv or .txt files are allowed"} -> "ValidationFailure"
      [] body \in {"temp dir error", "create file error", "save file error"} -> "StorageFailure"
      [] body \in {"Classical optimization failed", "Quantum optimization failed",
                   "stdout of the backend", "Python script failed"} -> "BackendFailure"
      [] body \in {"Failed to parse classical results", "Failed to parse quantum results",
                   "Failed to parse python results"} -> "DecodeFailure"
      [] OTHER -> "none"
C6_ClassicalTimeoutIsTimeoutFailure ==
    \A r \in DOMAIN req :
        (rev \in TwoBackendRevs /\ req[r].exit1 = "timeout" /\ Responded(r)) =>
            /\ Status(r) # 200
            /\ req[r].out2 = None
            /\ FailureKind(Get(req[r].resp).body) = "TimeoutFailure"

\* C7: once a request has completed, on whatever path, the temporary
\* directory it created and the submission saved in it no longer exist.
C7_TempDirRemovedOnEveryExit ==
    \A r \in DOMAIN req : Done(r) => req[r].tmp \in {"none", "removed"}

\* Witness of C7: a request completed by a panic of the perGraph loop, after
\* its directory had been created, and the directory is gone.
C7_Witness ==
    \E r \in DOMAIN req : Done(r) /\ req[r].panicked /\ req[r].tmp = "removed"

\* C8: in every run that ends in a 200 envelope both backends were invoked,
\* classical first, and every artifact was put in the store after the
\* outputs had been normalized and aggregated (the perGraph loop).
C8_RegistrationFollowsAggregation ==
    \A r \in DOMAIN req :
        rev \in TwoBackendRevs =>
            /\ (Responded(r) /\ Status(r) = 200) => req[r].launched = <<"classical", "quantum">>
            /\ Before(req[r].trace, "build", "register")

\* C9: once a stage of a request has failed, no later stage runs (the last
\* stage of the request is the one that failed, no subprocess is running and
\* the handler is returning or has returned) and no 200 envelope is written.
C9_FailureIsTerminal ==
    \A r \in DOMAIN req :
        req[r].failed # "none" =>
            /\ req[r].pc \in {"cleanup", "done"}
            /\ req[r].running = "none"
            /\ req[r].trace[Len(req[r].trace)] = req[r].failed
            /\ (Responded(r) => Status(r) # 200)

\* Witness of C9: the classical backend failed, the quantum backend was
\* never launched, and the request completed with an error response.
C9_Witness ==
    \E r \in DOMAIN req :
        /\ Done(r) /\ req[r].failed = "invoke" /\ req[r].exit1 = "nonzero"
        /\ req[r].launched = <<"classical">>
        /\ Responded(r) /\ Status(r) = 400

\* C10: a request without the file field, with an extension other than csv
\* or txt, or with an oversize file is answered with a client error, and no
\* solver subprocess is ever started for it.
BadUpload(r) ==
    /\ IsSome(req[r].upload)
    /\ LET u == Get(req[r].upload)
       IN u.method = "POST" /\ u.form = "ok" /\
          (~u.hasFile \/ u.ext \notin {".csv", ".txt"} \/ u.oversize)
C10_BadUploadNeverReachesASolver ==
    \A r \in DOMAIN req :
        BadUpload(r) => /\ req[r].launched = <<>>
                        /\ (Responded(r) => ClientError(Status(r)))

\* C11: when a backend exits nonzero or prints a stdout that is no
\* well-formed JSON, the response has a client-error (4xx) status and its
\* body carries the text that this backend wrote to stderr.
BackendFailed(r) ==
    \/ req[r].failed = "decode"
    \/ req[r].failed = "invoke" /\ "nonzero" \in {req[r].exit1, req[r].exit2}
C11_BackendFailureCarriesDiagnostic ==
    \A r \in DOMAIN req :
        (BackendFailed(r) /\ Responded(r)) =>
            /\ ClientError(Status(r))
            /\ Get(req[r].resp).detail \in {Some(StderrOf(b)) : b \in Backends}

\* C12: the two invocations of a request run under one deadline, set once
\* when the request creates its context: the deadline of a request never
\* changes (so the time the classical invocation used is taken from what is
\* left for the quantum one), no subprocess of the request is running at or
\* after it, a subprocess is killed exactly when the clock reaches it, and
\* no backend is launched at or after it.
C12_OneDeadlinePerRequest ==
    [][\A r \in DOMAIN req :
         /\ req[r].deadline # 0 => req'[r].deadline = req[r].deadline
         /\ req'[r].running # "none" => now' < req'[r].deadline
         /\ (req[r].running # "none" /\ req'[r].running = "none" /\ req'[r].pc = req[r].pc)
              => now' = req[r].deadline
         /\ Len(req'[r].launched) > Len(req[r].launched)
              => (req[r].deadline # 0 /\ now < req[r].deadline)]_vars

\* Witness of C12: the classical backend ended well, and the quantum backend
\* was killed when the clock reached the deadline of the request.
C12_Witness ==
    \E r \in DOMAIN req :
        /\ req[r].launched = <<"classical", "quantum">>
        /\ req[r].exit1 = "ok" /\ req[r].pc = "wait2" /\ req[r].running = "none"
        /\ now = req[r].deadline

\* C13 (as stated): the payload that runPython returns is exactly what the
\* backend wrote to stdout, whatever the interleaving with stderr.
Returned == Get(py.out)
C13_PayloadIsExactlyStdout ==
    (py # None /\ IsSome(py.out)) => Returned.payload = SelectSeq(py.writes, IsStdout)

\* C13 (amended): for any interleaving of the stdout and stderr writes, no
\* chunk written to stderr appears in the payload; the payload is exactly
\* what the backend wrote to stdout, except that "single" returns an empty
\* payload together with an error; stderr chunks are at most logged.
C13_PayloadHasNoStderr ==
    (py # None /\ IsSome(py.out)) =>
        /\ \A i \in DOMAIN Returned.payload : Returned.payload[i].ch = "stdout"
        /\ Returned.err = (py.exit # "ok")
        /\ Returned.payload = IF py.rev = RevSingle /\ Returned.err
                              THEN <<>> ELSE SelectSeq(py.writes, IsStdout)
        /\ Returned.logged \in {<<>>, SelectSeq(py.writes, IsStderr)}

\* Witness of C13: a backend wrote to stderr before and after a stdout
\* chunk, ended well, and runPython returned a payload.
C13_Witness ==
    /\ py # None /\ IsSome(py.out) /\ py.exit = "ok"
    /\ Len(py.writes) = 3
    /\ py.writes[1].ch = "stderr" /\ py.writes[2].ch = "stdout" /\ py.writes[3].ch = "stderr"
    /\ Len(Returned.payload) = 1

\* C14: when an item (a JSON object) of a backend's results lacks metrics,
\* metrics.enhanced, stats or a time field, a default stands in for the
\* field and the item is still emitted: the loop does not panic and every
\* pair of items of the common range is in perGraph.
AllObjects == \A it \in Range(agg.cRes) \cup Range(agg.qRes) : it.isMap
C14_IncompleteItemStillEmitted ==
    (agg # None /\ IsSome(agg.out) /\ AllObjects) =>
        /\ ~Get(agg.out).panic
        /\ Len(Get(agg.out).perGraph) = min(Len(agg.cRes), Len(agg.qRes))

\* C15: the upload directory, the saved submission and the files named in
\* the arguments of a running invocation belong to one request: two
\* concurrent requests never name the same file.
FilesOf(r) ==
    (IF req[r].tmp \in {"dir", "file"} THEN {tmpDir(r)} ELSE {})
    \cup (IF req[r].tmp = "file" THEN {dstPath(r)} ELSE {})
    \cup (IF req[r].running # "none" THEN ArgFiles(rev, req[r].running, r) ELSE {})
C15_RequestFilesAreExclusive ==
    \A r1, r2 \in DOMAIN req : r1 # r2 => FilesOf(r1) \cap FilesOf(r2) = {}

\* C16: within a request every backend is launched at most once, and after
\* a run that failed (nonzero exit, kill at the deadline) or an output that
\* could not be decoded, the launches are those made before the failure:
\* the failed backend is the last one launched and was launched once.
NoDuplicates(sq) == \A i, j \in DOMAIN sq : sq[i] = sq[j] => i = j
RunEndedBadly(x) == x \in {"nonzero", "timeout"}
C16_BackendLaunchedAtMostOnce ==
    \A r \in DOMAIN req :
        /\ NoDuplicates(req[r].launched)
        /\ req[r].launched \in {<<>>, <<FirstBackend(rev)>>, <<"classical", "quantum">>}
        /\ RunEndedBadly(req[r].exit1) => req[r].launched = <<FirstBackend(rev)>>
        /\ RunEndedBadly(req[r].exit2) => req[r].launched = <<"classical", "quantum">>
        /\ req[r].failed = "decode" =>
              req[r].launched \in {<<"runner">>, <<"classical", "quantum">>}

\* Witness of C16: the quantum backend exited nonzero, the request completed
\* with an error, and each backend was launched once.
C16_Witness ==
    \E r \in DOMAIN req :
        /\ Done(r) /\ req[r].exit2 = "nonzero"
        /\ req[r].launched = <<"classical", "quantum">>
        /\ Responded(r) /\ Status(r) = 400

\* C17: an artifact, once stored, stays in the store under its handle with
\* the same name and bytes: no step of any request or download removes or
\* replaces a record of the store.
C17_ArtifactsArePermanent ==
    [][\A h \in DOMAIN store : h \in DOMAIN store' /\ store'[h] = store[h]]_vars

\* The time of a metric set of an emitted item, as the int that `process`
\* computes from it, and in thousandths of a millisecond as reported.
TimeOf(m) == Get(m.enhanced).opt_time_ms
ReportedMilli(a) == IF Get(a).k = "int" THEN Get(a).v * 1000 ELSE Get(a).v \div 1000
Emitted == Range(Get(agg.out).perGraph)

\* C18 (as stated): for every emitted item, delta_ms is the item's quantum
\* time minus its classical time and quantum_speedup is the classical time
\* divided by the quantum time.
C18_CompareIsDifferenceAndQuotient ==
    (agg # None /\ IsSome(agg.out)) =>
        \A e \in Emitted :
            LET c == ReportedMilli(TimeOf(e.classical))
                q == ReportedMilli(TimeOf(e.quantum))
                x == e.compare.quantum_speedup
            IN /\ e.compare.delta_ms * 1000 = q - c
               /\ IsFinite(x) /\ x.num * q = c * x.den

\* C18 (amended): for every emitted item, with c and q the classical and
\* the quantum time of that item truncated to whole milliseconds, delta_ms
\* is q - c, and quantum_speedup is c / q when q > 0 and 0 otherwise; the
\* classical metrics emitted are those of the classical item at the same
\* position; 100 ms and 50 ms give -50 and 2.0.
C18_CompareOfTruncatedTimes ==
    (agg # None /\ IsSome(agg.out)) =>
        \A e \in Emitted :
            LET c == intFromAny(TimeOf(e.classical))
                q == intFromAny(TimeOf(e.quantum))
                x == e.compare.quantum_speedup
            IN /\ e.classical = Get(agg.cRes[e.pos + 1].metrics)
               /\ e.compare.delta_ms = q - c
               /\ IsFinite(x)
               /\ IF q > 0 THEN x.num * q = c * x.den ELSE IsZero(x)
               /\ (c = 100 /\ q = 50) => (e.compare.delta_ms = -50 /\ x.num = 2 * x.den)

\* Witness of C18: an item with a classical time of 100 ms and a quantum
\* time of 50 ms, given as one route of 0.05 s, was emitted.
C18_Witness ==
    /\ agg # None /\ IsSome(agg.out) /\ agg.rev = RevRouted
    /\ agg.cRes = <<ClassicalWith(100 * Micro)>>
    /\ agg.qRes = <<QuantumWith(RevRouted, 50 * Micro)>>
    /\ \E e \in Emitted : e.compare.delta_ms = -50

\* C19: for a quantum item with routes, the quantum time of the emitted
\* item is the sum of the times of its routes, in whole milliseconds (a
\* route without a time counts 0), not the time of its stats: routes of
\* 0.01 s, 0.02 s and 0.005 s give 35 ms.
RECURSIVE RouteMicros(_)
RouteMicros(rs) ==
    IF rs = <<>> THEN 0
    ELSE LET rm == rs[Len(rs)]
             t == IF IsSome(rm.quantum) /\ IsSome(Get(rm.quantum).time)
                  THEN Get(Get(rm.quantum).time).v ELSE 0
         IN RouteMicros(SubSeq(rs, 1, Len(rs) - 1)) + t
C19_RoutedTimeIsSumOfRoutes ==
    (agg # None /\ IsSome(agg.out)) =>
        \A e \in Emitted :
            LET q == agg.qRes[e.pos + 1]
            IN IsSome(q.routes) =>
                 intFromAny(TimeOf(e.quantum)) = RouteMicros(Get(q.routes)) \div 1000

\* C20: next to a complete classical item, a quantum item with a routes or
\* stats key is emitted with the quantum time of its routed shape (the sum
\* of its routes or the time of its stats), and a quantum item without
\* them that carries metrics.enhanced is emitted with the time of its
\* metrics: an item in the legacy shape is not rejected for lacking stats.
HasEnhanced(it) == it.isMap /\ IsSome(it.metrics) /\ IsSome(Get(it.metrics).enhanced)
RoutedShape(it) == IsSome(it.stats) \/ IsSome(it.routes)
RoutedTimes(it) ==
    (IF IsSome(it.routes) THEN {RouteMicros(Get(it.routes)) \div 1000} ELSE {})
    \cup (IF IsSome(it.stats) /\ IsSome(Get(it.stats).pure_quantum_time)
          THEN {Get(Get(it.stats).pure_quantum_time).v \div 1000} ELSE {})
C20_OneDecodingPerItem ==
    (agg # None /\ IsSome(agg.out) /\ ~Get(agg.out).panic) =>
        \A i \in 0..(min(Len(agg.cRes), Len(agg.qRes)) - 1) :
            LET c == agg.cRes[i + 1]
                q == agg.qRes[i + 1]
            IN (HasEnhanced(c) /\ q.isMap) =>
                 IF RoutedShape(q)
                 THEN \E e \in Emitted :
                        e.pos = i /\ intFromAny(TimeOf(e.quantum)) \in RoutedTimes(q)
                 ELSE HasEnhanced(q) =>
                        \E e \in Emitted :
                          e.pos = i /\ TimeOf(e.quantum) = TimeOf(Get(q.metrics))

\* C21: calculateAverageImprovement never returns NaN or Infinity, an item
\* whose classical distance is 0 contributing no number, and it returns 0
\* for an empty perGraph.
C21_ImprovementIsANumber ==
    (ui # None /\ IsSome(ui.out)) =>
        /\ JsIsFinite(Get(ui.out))
        /\ (ui.perGraph = None \/ ui.perGraph = Some(<<>>)) => JsIsZero(Get(ui.out))

\* C22: the perGraph loop leaves the decoded results alone: every step of
\* the gateway keeps the classical and the quantum result records as they
\* were decoded, and the comparison records it emits carry the classical
\* metrics of the record at their position.
C22_ResultsUnchangedByCompare ==
    [][(agg # None /\ agg' # None) =>
          /\ agg'.cRes = agg.cRes
          /\ agg'.qRes = agg.qRes
          /\ IsSome(agg'.out) =>
               \A k \in DOMAIN Get(agg'.out).perGraph :
                   LET e == Get(agg'.out).perGraph[k]
                   IN e.classical = Get(agg.cRes[e.pos + 1].metrics)]_vars

\* The loop emitted a comparison record for each of at least one position.
C22_Witness ==
    /\ agg # None
    /\ IsSome(agg.out)
    /\ Len(agg.cRes) >= 1
    /\ Len(Get(agg.out).perGraph) = Len(agg.cRes)

\* C23: in a 200 envelope every reported parameter was passed to a backend
\* of the request with the reported value (a switch that is reported off
\* was passed to none), and a form field that is missing or no integer is
\* reported with its default.
FlagOf(key) ==
    CASE key = "iterations" -> "--iterations"
      [] key = "solver_iterations" -> "--iterations"
      [] key = "baseline_limit" -> "--baseline-limit"
      [] key = "qaoa_layers" -> "--p-layers"
      [] key = "max_qubits" -> "--max-qubits"
      [] key = "reroute_fraction" -> "--reroute-fraction"
      [] key = "mirea_enabled" -> "--use-mirea"
Passed(r) == UNION Range(req[r].argv)
DefaultOf(key) ==
    CASE key = "iterations" -> 1
      [] key = "baseline_limit" -> 100
      [] key = "qaoa_layers" -> 2
      [] key = "max_qubits" -> 25
FieldOf(f, key) ==
    CASE key = "iterations" -> f.iterations
      [] key = "baseline_limit" -> f.baseline_limit
      [] key = "qaoa_layers" -> f.layers
      [] key = "max_qubits" -> f.max_qubits
C23_ParametersAreThoseUsed ==
    \A r \in DOMAIN req :
        (Responded(r) /\ Status(r) = 200) =>
            LET reported == Get(Get(req[r].resp).envelope).parameters
                f == Get(req[r].upload).fields
            IN /\ \A p \in reported :
                    IF p[2] = Switch(FALSE)
                    THEN \A a \in Passed(r) : a[1] # FlagOf(p[1])
                    ELSE <<FlagOf(p[1]), p[2]>> \in Passed(r)
               /\ rev \in {RevLegacy, RevRouted} =>
                    \A p \in reported :
                        (p[1] # "mirea_enabled" /\ FieldOf(f, p[1]).k # "int") =>
                            p[2] = Num(DefaultOf(p[1]))

\* C24: a `process` request that has completed was answered, by the 200
\* JSON envelope or by one text error of a status outside 2xx: no path of
\* the handler ends without writing a response, whatever the shape of the
\* items the backends printed.
C24_EveryRequestIsAnswered ==
    \A r \in DOMAIN req :
        Done(r) =>
            /\ Responded(r)
            /\ \/ Status(r) = 200 /\ IsSome(Get(req[r].resp).envelope)
               \/ Status(r) >= 300 /\ Get(req[r].resp).envelope = None

\* C25: when a 200 envelope is written, each non-empty handle of its
\* downloads map is in the store, and download with that handle returns a
\* name and bytes that this request registered.
JustAnswered(r) == req[r].pc = "cleanup" /\ Responded(r) /\ Status(r) = 200
HandlesIn(env) ==
    (IF rev = RevSingle THEN {env.downloads.submission_csv}
     ELSE {env.downloads.classical_csv, env.downloads.quantum_csv}) \ {0}
C25_ReturnedHandlesResolve ==
    \A r \in DOMAIN req :
        JustAnswered(r) =>
            \A h \in HandlesIn(Get(Get(req[r].resp).envelope)) :
                LET d == DownloadResp(store, h)
                IN /\ h \in DOMAIN store
                   /\ d.status = 200
                   /\ d.rec \in {req[r].art1, req[r].art2}

\* C26: once a `process` request has ended without a 200 envelope, the
\* store holds no artifact that this request registered.
C26_FailedRequestLeavesNoArtifact ==
    \A r \in DOMAIN req :
        (Done(r) /\ ~(Responded(r) /\ Status(r) = 200)) =>
            \A h \in DOMAIN store : store[h].Data.owner # r

\* C27: in the single-runner revision, after the registration block the
\* request holds a handle exactly when the backend's csv_base64 decoded: the
\* record is then in the store under it; otherwise (the field is empty or
\* does not decode) nothing was stored. The next step of the handler writes
\* the 200 envelope, whose downloads.submission_csv is that handle, or the
\* empty string.
C27_StoredOnlyWhenDecoded ==
    [][\A r \in DOMAIN req :
         (rev = RevSingle /\ req[r].pc = "build") =>
             LET p == Get(req[r].out1)
             IN /\ IF p.csv_base64 = "valid"
                   THEN /\ req[r].id1 # 0
                        /\ req[r].id1 \in DOMAIN store
                        /\ Some(store[req[r].id1]) = req[r].art1
                        /\ store[req[r].id1].Data.whole
                   ELSE /\ req[r].id1 = 0
                        /\ req[r].art1 = None
                        /\ \A h \in DOMAIN store : store[h].Data.owner # r
                /\ req'[r] # req[r] =>
                     /\ IsSome(req'[r].resp)
                     /\ Get(req'[r].resp).status = 200
                     /\ Get(Get(req'[r].resp).envelope).downloads.submission_csv = req[r].id1]_vars

\* The single runner's CSV was empty or did not decode: the request was
\* answered 200 with an empty handle and the store is empty.
C27_Witness ==
    \E r \in DOMAIN req :
        /\ rev = RevSingle
        /\ Done(r) /\ Responded(r) /\ Status(r) = 200
        /\ Get(Get(req[r].resp).envelope).downloads.submission_csv = 0
        /\ store = NoStore

\* C28: a file that validateFile accepted is not rejected by the intake
\* checks of `process` (extension, size) as a bad upload.
C28_AcceptedFilePassesIntake ==
    \A r \in DOMAIN req :
        (ui # None /\ IsSome(ui.out) /\ Get(ui.out).valid /\ IsSome(req[r].upload)) =>
            /\ req[r].failed # "intake"
            /\ req[r].pc = "save"

\* C29: when a two-backend `process` writes its 200 envelope, total_graphs
\* is the number of records of perGraph, that number is at most the
\* smaller of the two numbers of results, and the records are in ascending
\* position order, each position below that minimum and emitted once.
C29_TotalGraphsCountsPerGraph ==
    [][\A r \in DOMAIN req :
         (/\ rev \in TwoBackendRevs
          /\ req[r].pc = "build"
          /\ IsSome(req'[r].resp)
          /\ Get(req'[r].resp).status = 200) =>
             LET env == Get(Get(req'[r].resp).envelope)
                 n == min(Len(Get(req[r].out1).results), Len(Get(req[r].out2).results))
             IN /\ env.total_graphs = Some(Len(env.perGraph))
                /\ Len(env.perGraph) <= n
                /\ \A k \in DOMAIN env.perGraph : env.perGraph[k].pos \in 0..(n - 1)
                /\ \A j, k \in DOMAIN env.perGraph :
                       j < k => env.perGraph[j].pos < env.perGraph[k].pos]_vars

\* A two-backend revision wrote a 200 envelope with two records or more.
C29_Witness ==
    \E r \in DOMAIN req :
        /\ rev \in TwoBackendRevs
        /\ Responded(r) /\ Status(r) = 200
        /\ Len(Get(Get(req[r].resp).envelope).perGraph) >= 2

\* C30: after every step of the hook, isProcessing is true exactly when
\* some processFile call is in flight; results and uploadedFile change only
\* together, to the response and the file of a call that succeeded in that
\* step (or to null by reset), so a call that failed leaves both as they
\* were.
InFlight(h) == {c \in Calls : h.calls[c].st = "inflight"}
C30_ProcessingFlagTracksCalls ==
    [][(hook # None /\ hook' # None) =>
          /\ hook'.isProcessing = (InFlight(hook') # {})
          /\ (hook'.results # hook.results \/ hook'.uploadedFile # hook.uploadedFile) =>
                \/ \E c \in Calls :
                      /\ hook.calls[c].st = "inflight" /\ hook'.calls[c].st = "ok"
                      /\ hook'.uploadedFile = hook.calls[c].file
                      /\ hook'.results = Some([responseFor |-> Get(hook.calls[c].file)])
                \/ /\ hook'.calls = hook.calls
                   /\ hook'.results = None /\ hook'.uploadedFile = None]_vars

====
